---- MODULE Spec2Model ----
(***************************************************************************)
(* A model of the on-demand HLS servers of the repository:                 *)
(*   "index"  : src/index.js          (multi-quality, refresh in runFFmpeg) *)
(*   "multi"  : src/unnamed/part_002  (multi-quality, refresh in resolver)  *)
(*   "single" : src/unnamed/part_001  (single quality, validated)           *)
(*   "legacy" : src/unnamed/part_000, lines 256-513 (single quality)        *)
(*                                                                         *)
(* Strings that the code inspects (identifiers, quality labels, file names, *)
(* segment numbers) are sequences of tokens; a token is a character or an   *)
(* atomic word that the code never looks inside ("720p", "segment").       *)
(* Times are in milliseconds as Date.now(), URL expiries in seconds as the  *)
(* expire= parameter, media durations in units of 1/DurScale second.        *)
(***************************************************************************)
EXTENDS Integers, Sequences, FiniteSets, TLC

VARIABLES
  server,     \* which of the server files is running
  now,        \* Date.now()
  cache,      \* the NodeCache instance: key -> entry
  req,        \* the in-flight HTTP requests, by connection slot
  crashed,    \* the node process died of an uncaught exception
  mH,         \* manifest builder: the handler that builds the playlist
  mDuration,  \* manifest builder: data.duration
  mI,         \* manifest builder: the loop variable i
  mLines,     \* manifest builder: the segment entries emitted so far
  mDone,      \* manifest builder: #EXT-X-ENDLIST emitted
  fSrv,       \* fetchYouTubeData: the server file whose function is running
  fPc,        \* fetchYouTubeData: where the call stands
  fI,         \* fetchYouTubeData: the loop variable i
  fCalls,     \* fetchYouTubeData: axios.get calls issued by this call
  fLog,       \* fetchYouTubeData: err.message of each caught error, in order
  fOut,       \* fetchYouTubeData: what the call returned or threw
  fNow,       \* fetchYouTubeData: milliseconds since the call started
  fTimer,     \* fetchYouTubeData: when the armed timer is due, or NoTimer
  lastManifest,  \* the segment playlist last sent, and what it was sent for
  uText,      \* isUrlExpired: the url argument, as tokens
  uNow,       \* isUrlExpired: Date.now() at the call
  uSrv,       \* isUrlExpired: the server file whose function is called
  uOut,        \* isUrlExpired: <<the value returned>>, <<>> before the call
  kCall,      \* concurrent resolver calls: where each caller stands
  kStored,     \* concurrent resolver calls: the value last stored, by key
  pCall,  \* pre-conversion server: the POST /api/process requests in flight
  pCache,  \* pre-conversion server: cache.get(videoId) of the one video requested
  hlsDir  \* pre-conversion server: the video's directory under HLS_DIR

vars == <<server, now, cache, req, crashed, mH, mDuration, mI, mLines, mDone,
          fSrv, fPc, fI, fCalls, fLog, fOut, fNow, fTimer, lastManifest,
          uText, uNow, uSrv, uOut,
          kCall, kStored,
          pCall, pCache, hlsDir>>
srvVars == <<server, now, cache, req, crashed, lastManifest>>
manVars == <<mH, mDuration, mI, mLines, mDone>>
fetchVars == <<fSrv, fPc, fI, fCalls, fLog, fOut, fNow, fTimer>>
convVars == <<pCall, pCache, hlsDir>>
raceVars == <<kCall, kStored>>
expVars == <<uText, uNow, uSrv, uOut>>

(***************************************************************************)
(* Bounds of the model                                                     *)
(***************************************************************************)
MaxTicks == 1        \* how many times the clock advances by TimeStep
MaxDurSec == 31      \* manifest builder: durations up to this many seconds
MaxFetchTicks == 34  \* fetchYouTubeData: clock steps of RetryDelay per call
MaxUrlLen == 5       \* isUrlExpired: tokens in the url argument
MaxNowSteps == 9     \* isUrlExpired: Date.now() up to this many 5-minute steps

(***************************************************************************)
(* Program constants                                                       *)
(***************************************************************************)
StdTTL == 18000          \* new NodeCache({ stdTTL: 18000 }), seconds
SegmentDuration == 10    \* const segmentDuration = 10, seconds
DurScale == 10 * 1000    \* duration units per second (toFixed(3) keeps 1000)

Servers == {"index", "multi", "single", "legacy"}
MultiQuality == {"index", "multi"}
SingleQuality == {"single", "legacy"}


(***************************************************************************)
(* Strings                                                                 *)
(***************************************************************************)
Digits == <<"0", "1", "2", "3", "4", "5", "6", "7", "8", "9">>
DigitSet == {Digits[i] : i \in 1..10}
LowerSet == {"a","b","c","d","e","f","g","h","i","j","k","l","m",
             "n","o","p","q","r","s","t","u","v","w","x","y","z"}
UpperSet == {"A","B","C","D","E","F","G","H","I","J","K","L","M",
             "N","O","P","Q","R","S","T","U","V","W","X","Y","Z"}

\* the character class [a-zA-Z0-9_-]
IdChars == LowerSet \cup UpperSet \cup DigitSet \cup {"_", "-"}

\* videoId.match(/^[a-zA-Z0-9_-]{11}$/)
ValidId(id) == Len(id) = 11 /\ \A i \in 1..Len(id) : id[i] \in IdChars

\* String.prototype.includes on token sequences
Includes(s, sub) ==
  \E i \in 0..(Len(s) - Len(sub)) : SubSeq(s, i + 1, i + Len(sub)) = sub

Undefined == <<"undefined">>     \* ToString(undefined)

\* JavaScript numbers that may be NaN
NaN == [nan |-> TRUE, v |-> 0]
Num(n) == [nan |-> FALSE, v |-> n]

DigitVal(c) == CHOOSE d \in 0..9 : Digits[d + 1] = c

RECURSIVE LeadingDigits(_)
LeadingDigits(s) ==
  IF s = <<>> \/ Head(s) \notin DigitSet THEN <<>>
  ELSE <<Head(s)>> \o LeadingDigits(Tail(s))

RECURSIVE DigitsValue(_, _)
DigitsValue(ds, acc) ==
  IF ds = <<>> THEN acc ELSE DigitsValue(Tail(ds), acc * 10 + DigitVal(Head(ds)))

\* parseInt(s, 10): optional sign, the leading digits, NaN when there are none
parseInt(s) ==
  LET neg == s # <<>> /\ Head(s) = "-"
      body == IF s # <<>> /\ Head(s) \in {"-", "+"} THEN Tail(s) ELSE s
      ds == LeadingDigits(body)
  IN IF ds = <<>> THEN NaN
     ELSE Num((IF neg THEN -1 ELSE 1) * DigitsValue(ds, 0))

\* isNaN(x) || x < 0
BadSegmentIndex(n) == n.nan \/ n.v < 0

\* x * y on JavaScript numbers
Times(n, k) == IF n.nan THEN NaN ELSE Num(n.v * k)

\* Number.prototype.toString of a small non-negative integer, as tokens
ToTokens(n) == IF n < 10 THEN <<Digits[n + 1]>>
               ELSE <<Digits[(n \div 10) + 1], Digits[(n % 10) + 1]>>

(***************************************************************************)
(* Direct URLs: present or not, with or without an expire=<seconds> field  *)
(***************************************************************************)
NoExpire == -1
NoUrl == [present |-> FALSE, expire |-> NoExpire, tag |-> "none"]
Url(e, tag) == [present |-> TRUE, expire |-> e, tag |-> tag]

\* a margin of zero
ExpiryMarginNone(srv) == 0
\* isUrlExpired's safety margin in milliseconds
ExpiryMargin(srv) == IF srv = "legacy" THEN 1800000 ELSE 300000

\* isUrlExpired(url) at Date.now() = t
isUrlExpired(url, t, srv) ==
  IF url.expire = NoExpire THEN TRUE
  ELSE t >= url.expire * 1000 - ExpiryMargin(srv)

TimeStep == ExpiryMargin("index")
Horizon == MaxTicks * TimeStep + StdTTL * 1000 + TimeStep

(***************************************************************************)
(* The resolution API (external): what one HTTP call may come back with    *)
(***************************************************************************)
Item(type, label, url) == [type |-> type, label |-> label, url |-> url]

NoData == [has |-> FALSE, title |-> "", thumbnail |-> "", duration |-> 0,
           hasItems |-> FALSE, items |-> <<>>]
Data(title, dur, items) ==
  [has |-> TRUE, title |-> title, thumbnail |-> "thumb", duration |-> dur,
   hasItems |-> TRUE, items |-> items]

DataA == Data("A", 25 * DurScale,
              <<Item("video_with_audio", <<"720p">>, Url(2100, "A1")),
                Item("video_with_audio", <<"hd", "_", "720p">>, Url(2100, "A2")),
                Item("audio", <<"128k">>, Url(2100, "A3"))>>)
DataB == Data("B", 25 * DurScale,
              <<Item("video_with_audio", <<"360p">>, Url(600, "B1")),
                Item("video_with_audio", <<"720p">>, Url(600, "B2")),
                Item("audio", <<"128k">>, Url(600, "B3")),
                Item("video_with_audio", <<"240p">>, Url(600, "B4"))>>)
DataC == Data("C", 25 * DurScale,
              <<Item("video", <<"1080p">>, Url(2100, "C1"))>>)
DataD == Data("D", 25 * DurScale,
              <<Item("video_with_audio", <<"360p">>, Url(NoExpire, "D1")),
                Item("audio", <<>>, Url(NoExpire, "D2")),
                Item("video", <<"480p">>, NoUrl)>>)
\* an item of the wanted quality that carries no direct URL
DataE == Data("E", 25 * DurScale,
              <<Item("video_with_audio", <<"720p">>, NoUrl),
                Item("audio", <<"128k">>, Url(2100, "E2"))>>)
\* data.duration of a payload that has no duration property (undefined)
NoDuration == -1
DataF == [DataA EXCEPT !.title = "F", !.duration = NoDuration]

NetError == [kind |-> "error", msg |-> "timeout", data |-> NoData]
Reply(d) == [kind |-> "ok", msg |-> "", data |-> d]

UpstreamReplies ==
  {NetError, Reply(NoData), Reply([DataA EXCEPT !.title = ""]),
   Reply(DataA), Reply(DataB), Reply(DataC), Reply(DataD), Reply(DataE),
   Reply(DataF)}

Ok(v) == [ok |-> TRUE, v |-> v, error |-> ""]
Fail(msg) == [ok |-> FALSE, v |-> NoData, error |-> msg]
\* nothing returned or thrown yet; no timer armed
NoOutcome == Fail("")
NoTimer == -1

Format(item) ==
  [type |-> item.type,
   quality |-> IF item.label = <<>> THEN <<"unknown">> ELSE item.label,
   url |-> item.url]

MapFormats(items) == [i \in 1..Len(items) |-> Format(items[i])]

\* fetchYouTubeData(url) once axios.get has settled with reply u
fetchYouTubeData(u) ==
  IF u.kind = "error" THEN Fail("API request failed: " \o u.msg)
  ELSE LET data == u.data IN
       IF ~data.has \/ ~data.hasItems \/ data.title = ""
       THEN Fail("API request failed: Invalid response from API")
       ELSE Ok([title |-> data.title, thumbnail |-> data.thumbnail,
                duration |-> data.duration,
                formats |-> MapFormats(data.items)])

\* Array.prototype.find: the first element of s for which the predicate
\* holds (hit[i] is the predicate on s[i]), or NoFormat (undefined)
NoFormat == [type |-> "none", quality |-> <<>>, url |-> NoUrl]
Find(s, hit) ==
  IF \E i \in 1..Len(s) : hit[i]
  THEN s[CHOOSE i \in 1..Len(s) : hit[i] /\ \A j \in 1..(i - 1) : ~hit[j]]
  ELSE NoFormat

HasUrl(f) == f.url.present
\* data.formats.filter((f) => f.url)
ValidFormats(fs) == SelectSeq(fs, HasUrl)

(***************************************************************************)
(* The cache (node-cache, stdTTL seconds, expiry evaluated on get)         *)
(***************************************************************************)
NoEntry == [has |-> FALSE, t |-> 0, v |-> NoData]
Entry(v, t) == [has |-> TRUE, t |-> t + StdTTL * 1000, v |-> v]

\* cache.get(key): the value of a live entry
Live(e, t) == e.has /\ ~(e.t < t)

(***************************************************************************)
(* Request paths and Express routing                                       *)
(* A path is /stream/<id>/<file> or /api/info/<id>. A route parameter name  *)
(* is made of word characters [A-Za-z0-9_], so ':segNum_:quality' declares  *)
(* the parameters segNum_ and quality; adjacent parameters match lazily,    *)
(* the first taking one character.                                         *)
(***************************************************************************)
Path(base, id, file) == [base |-> base, id |-> id, file |-> file]
NoPath == Path("none", <<>>, <<>>)

Route(base, pre, keys, suf, h) ==
  [base |-> base, pre |-> pre, keys |-> keys, suf |-> suf, h |-> h]

MasterRoute == Route("stream", <<"master", ".m3u8">>, <<>>, <<>>, "master")
VariantRoute == Route("stream", <<>>, <<"quality">>, <<".m3u8">>, "variant")
AudioRoute == Route("stream", <<"audio", ".m3u8">>, <<>>, <<>>, "audio")
SegmentQRoute ==
  Route("stream", <<"segment">>, <<"segNum_", "quality">>, <<".ts">>, "segment")
ASegmentRoute == Route("stream", <<"asegment">>, <<"segNum">>, <<".aac">>, "asegment")
SegmentRoute == Route("stream", <<"segment">>, <<"segNum">>, <<".ts">>, "segment")
InfoRoute == Route("info", <<>>, <<>>, <<>>, "info")
NotFound == Route("none", <<>>, <<>>, <<>>, "notfound")

\* the app.get registrations, in order
Routes(srv) ==
  IF srv \in MultiQuality
  THEN <<MasterRoute, VariantRoute, AudioRoute, SegmentQRoute, ASegmentRoute>>
  ELSE <<MasterRoute, SegmentRoute, InfoRoute>>

Mid(rt, file) == SubSeq(file, Len(rt.pre) + 1, Len(file) - Len(rt.suf))

Matches(rt, path) ==
  /\ rt.base = path.base
  /\ Len(path.file) >= Len(rt.pre) + Len(rt.suf) + Len(rt.keys)
  /\ SubSeq(path.file, 1, Len(rt.pre)) = rt.pre
  /\ SubSeq(path.file, Len(path.file) - Len(rt.suf) + 1, Len(path.file)) = rt.suf
  /\ (rt.keys = <<>> => Mid(rt, path.file) = <<>>)

\* the first registered route whose pattern matches
Dispatch(srv, path) ==
  LET rs == Routes(srv) IN
  IF \E i \in 1..Len(rs) : Matches(rs[i], path)
  THEN rs[CHOOSE i \in 1..Len(rs) :
            Matches(rs[i], path) /\ \A j \in 1..(i - 1) : ~Matches(rs[j], path)]
  ELSE NotFound

\* req.params[name] for the matched route
Param(rt, path, name) ==
  LET mid == Mid(rt, path.file) IN
  IF name = "videoId" THEN path.id
  ELSE IF \A j \in 1..Len(rt.keys) : rt.keys[j] # name THEN Undefined
  ELSE IF Len(rt.keys) = 1 THEN mid
  ELSE IF rt.keys[1] = name THEN <<mid[1]>>
  ELSE Tail(mid)

(***************************************************************************)
(* Manifest text: the segment entries of a variant or audio playlist       *)
(***************************************************************************)
Min(a, b) == IF a <= b THEN a ELSE b

\* Math.ceil(a / b) for b > 0
CeilDiv(a, b) == -((-a) \div b)

\* a segment count computed as floor(duration / segmentDuration) + 1
NumSegmentsFloorPlusOne(d) == (d \div (SegmentDuration * DurScale)) + 1
\* Math.ceil(duration / segmentDuration)
NumSegments(d) == CeilDiv(d, SegmentDuration * DurScale)

\* a loop that declares the full segment duration for every segment
SegDurFull(d, i) == SegmentDuration * DurScale
\* Math.min(segmentDuration, duration - i * segmentDuration)
SegDur(d, i) ==
  Min(SegmentDuration * DurScale, d - i * SegmentDuration * DurScale)

\* x.toFixed(3): the nearest multiple of 0.001, as a count of thousandths
toFixed3(x) ==
  IF x >= 0 THEN (x * 1000 + DurScale \div 2) \div DurScale
  ELSE -(((-x) * 1000 + DurScale \div 2) \div DurScale)

\* a segment URI that carries the time at which the playlist was built
VariantUriStamped(id, quality, i) ==
  Path("stream", id,
       <<"segment">> \o ToTokens(i) \o <<"_">> \o quality
         \o <<".ts", "?t=">> \o ToTokens(now \div TimeStep))
\* `/stream/${videoId}/segment${i}_${quality}.ts`
VariantUri(id, quality, i) ==
  Path("stream", id, <<"segment">> \o ToTokens(i) \o <<"_">> \o quality \o <<".ts">>)
\* `/stream/${videoId}/asegment${i}.aac`
AudioUri(id, i) ==
  Path("stream", id, <<"asegment">> \o ToTokens(i) \o <<".aac">>)
\* `/stream/${videoId}/segment${i}.ts`
SingleUri(id, i) ==
  Path("stream", id, <<"segment">> \o ToTokens(i) \o <<".ts">>)

SegmentUri(h, id, quality, i) ==
  IF h = "variant" THEN VariantUri(id, quality, i)
  ELSE IF h = "audio" THEN AudioUri(id, i)
  ELSE SingleUri(id, i)

\* one "#EXTINF:<segDur.toFixed(3)>,\n<uri>" entry
ExtInf(d, i, uri) == [extinf |-> toFixed3(SegDur(d, i)), uri |-> uri]

\* for (let i = 0; i < numSegments; i++) manifest += ...
Playlist(h, id, quality, d) ==
  [k \in 1..NumSegments(d) |-> ExtInf(d, k - 1, SegmentUri(h, id, quality, k - 1))]

\* the master manifest of the multi-quality servers
VideoQualities == <<<<"360p">>, <<"480p">>, <<"720p">>, <<"1080p">>>>

Bandwidth(q) ==
  IF q = <<"360p">> THEN 800000
  ELSE IF q = <<"480p">> THEN 1400000
  ELSE IF q = <<"720p">> THEN 2800000
  ELSE IF q = <<"1080p">> THEN 5000000
  ELSE 1000000

(***************************************************************************)
(* Format selection                                                        *)
(***************************************************************************)
\* a find that matches the quality label and forgets the type
SelectVideoAnyType(fmts, quality) ==
  Find(fmts, [i \in 1..Len(fmts) |-> Includes(fmts[i].quality, quality)])
\* data.formats.find((f) => f.quality.includes(quality) && f.type === 'video_with_audio')
SelectVideo(fmts, quality) ==
  Find(fmts, [i \in 1..Len(fmts) |->
                Includes(fmts[i].quality, quality)
                  /\ fmts[i].type = "video_with_audio"])

\* data.formats.find((f) => f.type === 'video_with_audio')
FirstVideo(fmts) ==
  Find(fmts, [i \in 1..Len(fmts) |-> fmts[i].type = "video_with_audio"])

\* data.formats.find((f) => f.type === 'audio')
SelectAudio(fmts) ==
  Find(fmts, [i \in 1..Len(fmts) |-> fmts[i].type = "audio"])

\* find(matching quality) || find(video_with_audio)
SelectWithFallback(fmts, quality) ==
  IF SelectVideo(fmts, quality) # NoFormat THEN SelectVideo(fmts, quality)
  ELSE FirstVideo(fmts)

\* refreshed.formats.find((f) => f.quality === format.quality && f.type === format.type)
FreshFormat(fmts, format) ==
  Find(fmts, [i \in 1..Len(fmts) |->
                fmts[i].quality = format.quality /\ fmts[i].type = format.type])

MasterManifest(id, fmts) ==
  LET Has(q) == SelectVideo(fmts, q) # NoFormat
      qs == SelectSeq(VideoQualities, Has)
  IN <<[kind |-> "media", quality |-> <<"audio">>, bandwidth |-> 0,
        uri |-> Path("stream", id, <<"audio", ".m3u8">>)]>>
     \o [k \in 1..Len(qs) |->
           [kind |-> "stream-inf", quality |-> qs[k], bandwidth |-> Bandwidth(qs[k]),
            uri |-> Path("stream", id, qs[k] \o <<".m3u8">>)]]

(***************************************************************************)
(* Requests and responses                                                  *)
(***************************************************************************)
Requests == {"c1"}

GoodId == <<"t", "T", "P", "k", "-", "f", "S", "x", "5", "g", "c">>
BadId == <<"b", "a", "d", " ", "i", "d", "!">>
OtherId == <<"d", "Q", "w", "4", "w", "9", "W", "g", "X", "c", "Q">>
VideoIds == {GoodId, BadId, OtherId}

File(name, ext) == <<name, ext>>
Seg(pre, n, ext) == <<pre>> \o n \o <<ext>>

\* the request paths clients send to each server
ClientPaths(srv) ==
  IF srv \in MultiQuality
  THEN {Path("stream", GoodId, f) :
          f \in {File("master", ".m3u8"), File("720p", ".m3u8"),
                 File("1080p", ".m3u8"), File("audio", ".m3u8"),
                 Seg("segment", <<"1", "_", "720p">>, ".ts"),
                 Seg("asegment", <<"1">>, ".aac"),
                 Seg("asegment", <<"x">>, ".aac"),
                 Seg("asegment", <<"-", "1">>, ".aac")}}
       \cup {Path("stream", BadId, f) :
               f \in {File("master", ".m3u8"), Seg("asegment", <<"1">>, ".aac")}}
  ELSE {Path("stream", GoodId, f) :
          f \in {File("master", ".m3u8"), Seg("segment", <<"1">>, ".ts"),
                 Seg("segment", <<"x">>, ".ts"),
                 Seg("segment", <<"-", "1">>, ".ts")}}
       \cup {Path("stream", BadId, f) :
               f \in {File("master", ".m3u8"), Seg("segment", <<"1">>, ".ts")}}
       \cup {Path("info", GoodId, <<>>), Path("info", BadId, <<>>)}

\* details: the 'details' property of a JSON error body ("" when absent);
\* writes: how many times a handler has started a response on this connection
NoResp == [status |-> 0, kind |-> "none", error |-> "", body |-> <<>>,
           bytes |-> FALSE, complete |-> FALSE, details |-> "", writes |-> 0]
Resp(status, kind, error, body) ==
  [status |-> status, kind |-> kind, error |-> error, body |-> body,
   bytes |-> FALSE, complete |-> TRUE, details |-> "", writes |-> 1]

NoSpawn == [url |-> NoUrl, at |-> 0, ss |-> NaN, t |-> NaN, audio |-> FALSE]

IdleReq ==
  [st |-> "idle", path |-> NoPath, h |-> "none",
   videoId |-> <<>>, segNum |-> Undefined, quality |-> Undefined,
   fmts |-> <<>>, format |-> NoFormat, resp |-> NoResp,
   closed |-> FALSE, listening |-> FALSE,
   proc |-> "none", exitCode |-> "", spawn |-> NoSpawn, stderrOutput |-> "",
   calls |-> 0, refreshes |-> 0, spawns |-> 0,
   live |-> FALSE, fresh |-> FALSE, stale |-> FALSE]

\* the callers of the resolver that run concurrently
Callers == {"a", "b"}
IdleCall ==
  [pc |-> "idle", id |-> <<>>, force |-> FALSE, ret |-> NoData, error |-> "",
   waited |-> FALSE, raced |-> FALSE]

\* the POST /api/process requests of the pre-conversion server that run
\* concurrently; answer: "" (none yet), "fresh", "cached" or the error sent
Processes == {"p1", "p2"}
IdleProcess ==
  [pc |-> "idle", status |-> 0, answer |-> "", data |-> NoData, url |-> NoUrl]
\* cache.get(videoId) === undefined
NoInfo == [has |-> FALSE, title |-> ""]
\* path.join(HLS_DIR, videoId): not there; writers: the ffmpeg processes
\* that have the directory as their output
NoDir == [exists |-> FALSE, master |-> FALSE, writers |-> {}]

\* handlers that never find the headers sent
HeadersSentNever(q) == FALSE
\* res.headersSent
HeadersSent(q) == q.resp.kind # "none"

\* a handler starts the response `new` on a connection whose response so far
\* is `old`
After(old, new) ==
  [new EXCEPT !.writes = old.writes + 1, !.bytes = old.bytes]

\* res.status(500).json({ error: msg })
JsonError(q, msg) ==
  [q EXCEPT !.st = "done", !.resp = After(@, Resp(500, "json_error", msg, <<>>))]

\* res.set({'Content-Type': 'application/vnd.apple.mpegurl', ...}); res.send(manifest)
SendManifest(q, body) ==
  [q EXCEPT !.st = "done", !.resp = After(@, Resp(200, "m3u8", "", body))]

\* res.json(data)
SendJson(q, data) ==
  [q EXCEPT !.st = "done", !.resp = After(@, Resp(200, "json", "", <<data>>))]

(***************************************************************************)
(* The resolvers                                                           *)
(***************************************************************************)
Throw(msg) == [k |-> "throw", error |-> msg, v |-> NoData]
Hit(v) == [k |-> "hit", error |-> "", v |-> v]
Fetch == [k |-> "fetch", error |-> "", v |-> NoData]
Got(v) == [k |-> "got", error |-> "", v |-> v]

AnyExpired(fmts, t, srv) ==
  \E i \in 1..Len(fmts) : isUrlExpired(fmts[i].url, t, srv)

\* a resolver that never reads the cache
getVideoFormatsNoCache(id, force, c, t) ==
  IF ~ValidId(id) THEN Throw("Invalid YouTube video ID") ELSE Fetch
\* index.js getVideoFormats(videoId, forceRefresh), up to the upstream call
getVideoFormats(id, force, c, t) ==
  IF ~ValidId(id) THEN Throw("Invalid YouTube video ID")
  ELSE IF ~force /\ Live(c[id], t) THEN Hit(c[id].v)
  ELSE Fetch

\* part_002 getVideoFormats(videoId), up to the upstream call
getVideoFormatsMulti(id, c, t) ==
  IF ~ValidId(id) THEN Throw("Invalid YouTube video ID")
  ELSE IF ~Live(c[id], t) \/ AnyExpired(c[id].v.formats, t, "multi") THEN Fetch
  ELSE Hit(c[id].v)

\* part_001 / part_000 getVideoUrl(videoId, quality = '720p'), up to the call;
\* only part_001 validates the identifier
getVideoUrl(srv, id, c, t) ==
  IF srv = "single" /\ ~ValidId(id) THEN Throw("Invalid YouTube video ID")
  ELSE IF Live(c[id], t) /\ ~c[id].v.url.present
       THEN Throw("Cannot read properties of undefined (reading 'match')")
  ELSE IF Live(c[id], t) /\ ~isUrlExpired(c[id].v.url, t, srv) THEN Hit(c[id].v)
  ELSE Fetch

Resolve(srv, id, c, t) ==
  IF srv = "index" THEN getVideoFormats(id, FALSE, c, t)
  ELSE IF srv = "multi" THEN getVideoFormatsMulti(id, c, t)
  ELSE getVideoUrl(srv, id, c, t)

\* getVideoFormats after fetchYouTubeData settled: the value cached and returned
FormatsFetched(u) ==
  LET r == fetchYouTubeData(u) IN
  IF ~r.ok THEN Throw(r.error)
  ELSE Got([r.v EXCEPT !.formats = ValidFormats(@)])

\* getVideoUrl after fetchYouTubeData settled
UrlFetched(u) ==
  LET r == fetchYouTubeData(u) IN
  IF ~r.ok THEN Throw(r.error)
  ELSE LET format == SelectWithFallback(r.v.formats, <<"720p">>) IN
       IF format = NoFormat THEN Throw("No suitable format found")
       ELSE Got([url |-> format.url, title |-> r.v.title,
                 duration |-> r.v.duration])

Fetched(srv, u) ==
  IF srv \in MultiQuality THEN FormatsFetched(u) ELSE UrlFetched(u)

\* a store that updates the cached object in place, keeping its title
StoredMerged(c, id, res, t) ==
  IF res.k = "got"
  THEN [c EXCEPT ![id] =
          Entry([res.v EXCEPT !.title = IF c[id].has THEN c[id].v.title ELSE @], t)]
  ELSE c
\* a store that empties the rest of the cache
StoredFlushing(c, id, res, t) ==
  IF res.k = "got"
  THEN [k \in DOMAIN c |-> IF k = id THEN Entry(res.v, t) ELSE NoEntry]
  ELSE c
\* a store that drops the entry when the resolve fails
StoredOrDropped(c, id, res, t) ==
  IF res.k = "got" THEN [c EXCEPT ![id] = Entry(res.v, t)]
  ELSE [c EXCEPT ![id] = NoEntry]
\* the cache after the resolver's upstream call settled with res:
\* cache.set(cacheKey, ...) is reached only when nothing was thrown
Stored(c, id, res, t) ==
  IF res.k = "got" THEN [c EXCEPT ![id] = Entry(res.v, t)] ELSE c

(***************************************************************************)
(* The transcoding subprocess                                              *)
(***************************************************************************)
\* how spawn(ffmpegStatic, args) may end: the process starts; the binary is
\* missing at its path (an 'error' event on the child); ffmpegStatic is null
SpawnOutcomes(srv) ==
  IF srv = "legacy" THEN {"ok", "enoent"} ELSE {"ok", "enoent", "nobinary"}

NoBinaryMessage(srv) ==
  IF srv = "single"
  THEN "FFmpeg binary not found. Ensure ffmpeg-static is installed."
  ELSE "The \"file\" argument must be of type string. Received null"

\* spawn(ffmpegStatic, args); ffmpeg.stdout.pipe(res); ...; res.on('close', kill)
SpawnFFmpeg(srv, q, url, o, t) ==
  IF o = "nobinary" THEN JsonError(q, NoBinaryMessage(srv))
  ELSE [q EXCEPT
          !.st = "transcoding",
          !.proc = IF o = "ok" THEN "running" ELSE "spawnerr",
          !.spawns = @ + 1,
          !.spawn = [url |-> url, at |-> t,
                     ss |-> Times(parseInt(q.segNum), SegmentDuration),
                     t |-> Num(SegmentDuration),
                     audio |-> (q.h = "asegment")],
          !.listening = ~q.closed]

\* a runFFmpeg that spawns at once and still refreshes an expired URL
runFFmpegSpawnFirst(q, format, o, t) ==
  LET sp == SpawnFFmpeg("index", [q EXCEPT !.format = format], format.url, o, t)
  IN IF isUrlExpired(format.url, t, "index") /\ sp.st = "transcoding"
     THEN [sp EXCEPT !.st = "refreshing", !.refreshes = @ + 1]
     ELSE sp
\* a runFFmpeg that spawns without looking at the URL's expiry
runFFmpegNoCheck(q, format, o, t) ==
  SpawnFFmpeg("index", [q EXCEPT !.format = format], format.url, o, t)
\* index.js runFFmpeg: refresh the URL if expired, else spawn
runFFmpeg(q, format, o, t) ==
  IF isUrlExpired(format.url, t, "index")
  THEN [q EXCEPT !.st = "refreshing", !.format = format, !.refreshes = @ + 1]
  ELSE SpawnFFmpeg("index", [q EXCEPT !.format = format], format.url, o, t)

\* index.js runFFmpeg once getVideoFormats(videoId, true) settled with res
runFFmpegRefreshed(q, res, o, t) ==
  IF res.k = "throw" THEN JsonError(q, res.error)
  ELSE LET fresh == FreshFormat(res.v.formats, q.format)
           format == IF fresh # NoFormat THEN fresh ELSE q.format
       IN SpawnFFmpeg("index", [q EXCEPT !.format = format], format.url, o, t)

(***************************************************************************)
(* The route handlers, from the point where the resolver returned data     *)
(***************************************************************************)
\* master.m3u8, :quality.m3u8 and audio.m3u8 of index.js and part_002
ManifestHandler(q, data) ==
  IF q.h = "master"
  THEN SendManifest([q EXCEPT !.fmts = data.formats],
                    MasterManifest(q.videoId, data.formats))
  ELSE LET format == IF q.h = "variant"
                     THEN SelectVideo(data.formats, q.quality)
                     ELSE SelectAudio(data.formats)
           q1 == [q EXCEPT !.fmts = data.formats, !.format = format]
       IN IF format = NoFormat
          THEN JsonError(q1, IF q.h = "variant" THEN "Format not available"
                             ELSE "Audio format not available")
          ELSE SendManifest(q1, Playlist(q.h, q.videoId, q.quality, data.duration))

\* segment:segNum_:quality.ts and asegment:segNum.aac of index.js and part_002
SegmentHandler(srv, q, data, o, t) ==
  LET format == IF q.h = "segment"
                THEN SelectVideo(data.formats, q.quality)
                ELSE SelectAudio(data.formats)
      q1 == [q EXCEPT !.fmts = data.formats, !.format = format,
                      !.stale = format # NoFormat /\ isUrlExpired(format.url, t, srv)]
  IN IF format = NoFormat
     THEN JsonError(q1, IF q.h = "segment" THEN "Format not available"
                        ELSE "Audio format not available")
     ELSE IF srv = "index" THEN runFFmpeg(q1, format, o, t)
     ELSE SpawnFFmpeg(srv, q1, format.url, o, t)

\* master.m3u8, segment:segNum.ts and /api/info of part_001 and part_000
SingleHandler(srv, q, data, o, t) ==
  IF q.h = "master"
  THEN SendManifest(q, Playlist("master", q.videoId, <<>>, data.duration))
  ELSE IF q.h = "info" THEN SendJson(q, data)
  ELSE SpawnFFmpeg(srv,
         [q EXCEPT !.format = [type |-> "video_with_audio", quality |-> <<"720p">>,
                               url |-> data.url],
                   !.stale = IF data.url.present
                             THEN isUrlExpired(data.url, t, srv) ELSE TRUE],
         data.url, o, t)

AfterData(srv, q, data, o, t) ==
  IF srv \in SingleQuality THEN SingleHandler(srv, q, data, o, t)
  ELSE IF q.h \in {"master", "variant", "audio"} THEN ManifestHandler(q, data)
  ELSE SegmentHandler(srv, q, data, o, t)

\* what a handler checks before it calls the resolver (part_001 only)
Precheck(srv, q) ==
  IF srv # "single" THEN ""
  ELSE IF q.h = "segment" /\ BadSegmentIndex(parseInt(q.segNum))
       THEN "Invalid segment number"
  ELSE IF ~ValidId(q.videoId) THEN "Invalid YouTube video ID"
  ELSE ""

(***************************************************************************)
(* Subprocess events                                                       *)
(***************************************************************************)
\* a pipe that never ends the response
PipeEndNone(q) == q

\* ffmpeg.stdout.pipe(res): when stdout ends the pipe calls res.end(), which
\* sends the headers (status 200) if nothing was written yet. The child's
\* 'close' event is emitted after its stdio streams have closed. A response
\* that closed while piped has unpiped itself and is not ended by the pipe.
PipeEnd(q) ==
  IF q.closed /\ q.listening THEN q
  ELSE IF q.resp.kind = "none"
  THEN [q EXCEPT !.resp = After(@, Resp(200, "stream", "", <<>>))]
  ELSE [q EXCEPT !.resp.complete = TRUE]

NoDetails == "No additional error details available"
SpawnMessage == "spawn ffmpeg ENOENT"

\* ffmpeg.on('close', (code) => ...); part_001 sends
\* details: stderrOutput || 'No additional error details available'
OnClose(srv, q, code) ==
  IF code = "0" \/ srv \in MultiQuality \/ HeadersSent(q) THEN q
  ELSE IF srv = "single"
       THEN [q EXCEPT !.resp =
               After(@, [Resp(500, "json_error",
                              "FFmpeg process exited with code " \o code, <<>>)
                           EXCEPT !.details = IF q.stderrOutput = ""
                                              THEN NoDetails
                                              ELSE q.stderrOutput])]
  ELSE [q EXCEPT !.resp = After(@, Resp(500, "empty", "", <<>>))]

\* the process has exited: stdout ends, then 'close' fires
Exited(srv, q, code) ==
  OnClose(srv, PipeEnd([q EXCEPT !.st = "done", !.proc = "exited",
                                 !.exitCode = code]), code)

\* ffmpeg.on('error', (err) => ...) of part_001 and part_000
OnError(srv, q) ==
  IF HeadersSent(q) THEN q
  ELSE IF srv = "single"
       THEN [q EXCEPT !.resp =
               After(@, [Resp(500, "json_error",
                              "Failed to spawn FFmpeg process", <<>>)
                           EXCEPT !.details = SpawnMessage])]
  ELSE [q EXCEPT !.resp = After(@, Resp(500, "empty", "", <<>>))]

InFlight(q) == q.st \in {"resolving", "refreshing", "transcoding"}

\* the handlers that build a segment playlist on each server
PlaylistHandlers(srv) ==
  IF srv \in MultiQuality THEN {"variant", "audio"} ELSE {"master"}

\* res.send(manifest) of a handler that builds a segment playlist: what the
\* client has in hand afterwards, with the request and the media it is for
NoManifest ==
  [h |-> "none", videoId |-> <<>>, quality |-> <<>>, title |-> "",
   duration |-> 0, body |-> <<>>, again |-> FALSE]
IsPlaylist(srv, q) ==
  /\ q.st = "done" /\ q.resp.kind = "m3u8"
  /\ q.h \in PlaylistHandlers(srv)
\* the same manifest (handler, videoId, quality) of the same resolved media
SameManifest(a, b) ==
  /\ a.h = b.h /\ a.videoId = b.videoId /\ a.quality = b.quality
  /\ a.title = b.title /\ a.duration = b.duration
Received(srv, q, data, last) ==
  IF IsPlaylist(srv, q)
  THEN LET m == [h |-> q.h, videoId |-> q.videoId, quality |-> q.quality,
                 title |-> data.title, duration |-> data.duration,
                 body |-> q.resp.body, again |-> FALSE]
       IN [m EXCEPT !.again = SameManifest(m, last)]
  ELSE last

(***************************************************************************)
(* The servers' state machine                                              *)
(***************************************************************************)
CacheFresh(srv, e, t) ==
  IF srv \in MultiQuality THEN ~AnyExpired(e.v.formats, t, srv)
  ELSE e.v.url.present /\ ~isUrlExpired(e.v.url, t, srv)

Init ==
  /\ server \in Servers
  /\ now = 0
  /\ cache = [id \in VideoIds |-> NoEntry]
  /\ req = [r \in Requests |-> IdleReq]
  /\ crashed = FALSE
  /\ mH = "none" /\ mDuration = 0 /\ mI = 0 /\ mLines = <<>> /\ mDone = TRUE
  /\ fSrv = "index" /\ fPc = "idle" /\ fI = 0 /\ fCalls = 0 /\ fLog = <<>>
  /\ fOut = NoOutcome /\ fNow = 0 /\ fTimer = NoTimer
  /\ lastManifest = NoManifest
  /\ pCall = [p \in Processes |-> IdleProcess] /\ pCache = NoInfo /\ hlsDir = NoDir
  /\ kCall = [c \in Callers |-> IdleCall] /\ kStored = [id \in VideoIds |-> NoData]
  /\ uText = <<>> /\ uNow = 0 /\ uSrv = "index" /\ uOut = <<>>

\* the request as its handler sees it: the matched route and req.params
Routed(srv, path) ==
  LET rt == Dispatch(srv, path)
  IN [IdleReq EXCEPT !.path = path, !.h = rt.h,
                     !.videoId = Param(rt, path, "videoId"),
                     !.segNum = Param(rt, path, "segNum"),
                     !.quality = Param(rt, path, "quality")]

\* the handler of an arriving request, up to its first await
Arrive(r, path, o) ==
  /\ ~crashed
  /\ req[r].st = "idle"
  /\ LET rt == Dispatch(server, path)
         q == Routed(server, path)
         pre == Precheck(server, q)
         res == Resolve(server, q.videoId, cache, now)
         e == cache[q.videoId]
         q1 == [q EXCEPT !.live = Live(e, now),
                         !.fresh = Live(e, now) /\ CacheFresh(server, e, now)]
     IN req' = [req EXCEPT ![r] =
          IF rt.h = "notfound"
          THEN [q EXCEPT !.st = "done", !.resp = After(@, Resp(404, "html", "", <<>>))]
          ELSE IF pre # "" THEN JsonError(q, pre)
          ELSE IF res.k = "throw" THEN JsonError(q, res.error)
          ELSE IF res.k = "hit" THEN AfterData(server, q1, res.v, o, now)
          ELSE [q1 EXCEPT !.st = "resolving", !.calls = 1]]
  /\ UNCHANGED <<server, now, cache, crashed, manVars, fetchVars, convVars, raceVars, expVars>>

\* an HTTP request arrives and its handler runs to its first await
Request(r, path, o) ==
  /\ Arrive(r, path, o)
  /\ UNCHANGED lastManifest

\* the rest of the handler once its upstream call has settled with reply u
Resume(r, u, o) ==
  /\ ~crashed
  /\ req[r].st \in {"resolving", "refreshing"}
  /\ LET q == req[r]
         res == Fetched(server, u)
         q1 == IF server \in SingleQuality /\ fetchYouTubeData(u).ok
               THEN [q EXCEPT !.fmts = fetchYouTubeData(u).v.formats]
               ELSE q
     IN /\ cache' = Stored(cache, q.videoId, res, now)
        /\ req' = [req EXCEPT ![r] =
             IF q.st = "refreshing" THEN runFFmpegRefreshed(q, res, o, now)
             ELSE IF res.k = "throw" THEN JsonError(q1, res.error)
             ELSE AfterData(server, q1, res.v, o, now)]
  /\ UNCHANGED <<server, now, crashed, manVars, fetchVars, convVars, raceVars, expVars>>

\* the upstream call of request r settles with reply u
UpstreamReply(r, u, o) ==
  /\ Resume(r, u, o)
  /\ UNCHANGED lastManifest

\* the subprocess writes a chunk to stdout, piped to the response
ProcData(r) ==
  /\ ~crashed
  /\ req[r].proc = "running" /\ ~req[r].closed /\ ~req[r].resp.complete
  /\ req' = [req EXCEPT ![r].resp =
               [Resp(200, "stream", "", <<>>) EXCEPT !.bytes = TRUE,
                                                     !.complete = FALSE]]
  /\ UNCHANGED <<server, now, cache, crashed, manVars, fetchVars, convVars, raceVars, expVars, lastManifest>>

\* the subprocess writes a chunk to stderr. part_001 appends it to
\* stderrOutput; the other servers only log it.
StderrChunk == "E"
ProcStderr(r) ==
  /\ ~crashed
  /\ req[r].proc = "running" /\ req[r].stderrOutput = ""
  /\ req' = IF server = "single"
            THEN [req EXCEPT ![r].stderrOutput = @ \o StderrChunk]
            ELSE req
  /\ UNCHANGED <<server, now, cache, crashed, manVars, fetchVars, convVars, raceVars, expVars, lastManifest>>

\* the subprocess exits, by itself (0 or 1) or on the signal (code null)
ProcExit(r, code) ==
  /\ ~crashed
  /\ \/ req[r].proc = "running" /\ code \in {"0", "1"}
     \/ req[r].proc = "killed" /\ code = "null"
  /\ req' = [req EXCEPT ![r] = Exited(server, req[r], code)]
  /\ UNCHANGED <<server, now, cache, crashed, manVars, fetchVars, convVars, raceVars, expVars, lastManifest>>

\* the child emits 'error': the process could not be started. Without an
\* 'error' listener (index.js, part_002) the event is thrown and is uncaught.
SpawnError(r) ==
  /\ ~crashed
  /\ req[r].proc = "spawnerr"
  /\ IF server \in MultiQuality
     THEN /\ crashed' = TRUE
          /\ req' = [x \in Requests |->
                       IF InFlight(req[x])
                       THEN [req[x] EXCEPT !.st = "dead", !.closed = TRUE,
                                           !.proc = IF x = r THEN "failed" ELSE @]
                       ELSE req[x]]
     ELSE /\ crashed' = FALSE
          /\ req' = [req EXCEPT ![r] =
                       OnClose(server,
                               PipeEnd([OnError(server, req[r]) EXCEPT
                                          !.st = "done", !.proc = "failed",
                                          !.exitCode = "-2"]),
                               "-2")]
  /\ UNCHANGED <<server, now, cache, manVars, fetchVars, convVars, raceVars, expVars, lastManifest>>

\* the client's connection closes; the 'close' listener, if registered, kills
ClientClose(r) ==
  /\ ~crashed
  /\ InFlight(req[r]) /\ ~req[r].closed
  /\ req' = [req EXCEPT ![r].closed = TRUE,
                        ![r].proc = IF req[r].listening /\ @ = "running"
                                    THEN "killed" ELSE @]
  /\ UNCHANGED <<server, now, cache, crashed, manVars, fetchVars, convVars, raceVars, expVars, lastManifest>>

\* the connection slot is used again
Recycle(r) ==
  /\ ~crashed
  /\ req[r].st = "done"
  /\ req' = [req EXCEPT ![r] = IdleReq]
  /\ UNCHANGED <<server, now, cache, crashed, manVars, fetchVars, convVars, raceVars, expVars, lastManifest>>

SleepLen == StdTTL * 1000 + TimeStep

\* time passes: a short step
Tick ==
  /\ (now % SleepLen) + TimeStep <= MaxTicks * TimeStep
  /\ now' = now + TimeStep
  /\ UNCHANGED <<server, cache, req, crashed, manVars, fetchVars, convVars, raceVars, expVars, lastManifest>>

\* time passes: longer than the cache TTL
Sleep ==
  /\ now + SleepLen <= Horizon
  /\ now' = now + SleepLen
  /\ UNCHANGED <<server, cache, req, crashed, manVars, fetchVars, convVars, raceVars, expVars, lastManifest>>

Next ==
  \/ \E r \in Requests, o \in SpawnOutcomes(server) :
       \E path \in ClientPaths(server) : Request(r, path, o)
  \/ \E r \in Requests, o \in SpawnOutcomes(server) :
       \E u \in UpstreamReplies : UpstreamReply(r, u, o)
  \/ \E r \in Requests : ProcData(r)
  \/ \E r \in Requests : ProcStderr(r)
  \/ \E r \in Requests : \E code \in {"0", "1", "null"} : ProcExit(r, code)
  \/ \E r \in Requests : SpawnError(r)
  \/ \E r \in Requests : ClientClose(r)
  \/ \E r \in Requests : Recycle(r)
  \/ Tick
  \/ Sleep

Spec == Init /\ [][Next]_vars

(***************************************************************************)
(* The manifest endpoints as a client sees them that asks for playlists    *)
(* again and again and keeps the last one it received                      *)
(***************************************************************************)
ManifestPaths(srv) ==
  {p \in ClientPaths(srv) :
     Dispatch(srv, p).h \in {"master", "variant", "audio"}}

\* a manifest request arrives; answered from the cache, the client has it
ManifestRequest(r, path) ==
  /\ Arrive(r, path, "ok")
  /\ LET res == Resolve(server, req'[r].videoId, cache, now)
     IN lastManifest' = IF res.k = "hit"
                        THEN Received(server, req'[r], res.v, lastManifest)
                        ELSE lastManifest

\* the upstream call of a manifest request settles; the client has the answer
ManifestReply(r, u) ==
  /\ Resume(r, u, "ok")
  /\ LET res == Fetched(server, u)
     IN lastManifest' = IF res.k = "got"
                        THEN Received(server, req'[r], res.v, lastManifest)
                        ELSE lastManifest

NextReplay ==
  \/ \E r \in Requests :
       \E path \in ManifestPaths(server) : ManifestRequest(r, path)
  \/ \E r \in Requests : \E u \in UpstreamReplies : ManifestReply(r, u)
  \/ \E r \in Requests : ClientClose(r)
  \/ \E r \in Requests : Recycle(r)
  \/ Tick
  \/ Sleep

SpecReplay == Init /\ [][NextReplay]_vars

(***************************************************************************)
(* The playlist loop of the manifest handlers, one iteration at a time     *)
(***************************************************************************)
\* data.duration as the upstream JSON may give it: whole seconds, fractions
\* down to a tenth of a millisecond, zero and a negative value
DurationFractions == {0, 4, 5, 6, DurScale \div 2}
Durations ==
  {sec * DurScale + f : sec \in 0..MaxDurSec, f \in DurationFractions}
    \cup {125 * DurScale, -DurScale}

\* const duration = data.duration; let manifest = `#EXTM3U...`; i = 0
PlaylistStart(d, h) ==
  /\ mDone
  /\ h \in PlaylistHandlers(server)
  /\ mH' = h /\ mDuration' = d /\ mI' = 0 /\ mLines' = <<>> /\ mDone' = FALSE
  /\ UNCHANGED <<srvVars, fetchVars, convVars, raceVars, expVars>>

\* one iteration of for (let i = 0; i < numSegments; i++)
PlaylistStep ==
  /\ ~mDone
  /\ mI < NumSegments(mDuration)
  /\ mLines' = Append(mLines,
                      ExtInf(mDuration, mI, SegmentUri(mH, GoodId, <<"720p">>, mI)))
  /\ mI' = mI + 1
  /\ UNCHANGED <<srvVars, fetchVars, convVars, raceVars, expVars, mH, mDuration, mDone>>

\* manifest += '#EXT-X-ENDLIST\n'; res.send(manifest)
PlaylistEnd ==
  /\ ~mDone
  /\ ~(mI < NumSegments(mDuration))
  /\ mDone' = TRUE
  /\ UNCHANGED <<srvVars, fetchVars, convVars, raceVars, expVars, mH, mDuration, mI, mLines>>

NextManifest ==
  \/ \E d \in Durations, h \in {"variant", "audio", "master"} : PlaylistStart(d, h)
  \/ PlaylistStep
  \/ PlaylistEnd

SpecManifest == Init /\ [][NextManifest]_vars

(***************************************************************************)
(* fetchYouTubeData one await at a time: the single axios.get of the       *)
(* on-demand servers and the retry loop of the pre-conversion server       *)
(* (src/unnamed/part_000, lines 1-254)                                     *)
(***************************************************************************)
PreConversion == "preconv"
FetchServers == Servers \cup {PreConversion}

\* the loop bound: retries = 3 in the pre-conversion server; the on-demand
\* servers call axios.get once, outside any loop
Retries(srv) == IF srv = PreConversion THEN 3 ELSE 1

\* await new Promise((resolve) => setTimeout(resolve, delay)), delay = 1000
RetryDelay == 1000

\* the timeout option of axios.get in milliseconds; it is given only by the
\* pre-conversion server, and the axios default 0 means no timeout
AxiosTimeout(srv) == IF srv = PreConversion THEN 10 * 1000 ELSE 0

\* the rejection of axios.get when its timeout elapses
TimeoutError ==
  [kind |-> "error", msg |-> "timeout of 10000ms exceeded", data |-> NoData]

\* the body of the try block once axios.get has settled with u: the value
\* returned, or the message of the error thrown into the catch clause
TryBody(u) ==
  IF u.kind = "error" THEN Fail(u.msg)
  ELSE LET data == u.data IN
       IF ~data.has \/ ~data.hasItems \/ data.title = ""
       THEN Fail("Invalid response from API")
       ELSE Ok([title |-> data.title, thumbnail |-> data.thumbnail,
                duration |-> data.duration,
                formats |-> MapFormats(data.items)])

\* axios.get is called in pass i of the loop and the function awaits it
IssueGet(srv, i, calls, t) ==
  /\ fPc' = "awaiting"
  /\ fI' = i
  /\ fCalls' = calls + 1
  /\ fTimer' = IF AxiosTimeout(srv) = 0 THEN NoTimer ELSE t + AxiosTimeout(srv)

\* the awaited axios.get settles with u: return, or catch (err)
Settled(u) ==
  LET r == TryBody(u) IN
  IF r.ok
  THEN /\ fPc' = "returned" /\ fOut' = r /\ fTimer' = NoTimer
       /\ UNCHANGED <<fI, fCalls, fLog>>
  ELSE /\ fLog' = Append(fLog, r.error)
       /\ IF fI = Retries(fSrv) - 1
          THEN /\ fPc' = "thrown" /\ fTimer' = NoTimer
               /\ fOut' = Fail("API request failed: " \o r.error)
          ELSE /\ fPc' = "sleeping" /\ fTimer' = fNow + RetryDelay
               /\ fOut' = fOut
       /\ UNCHANGED <<fI, fCalls>>

\* fetchYouTubeData(url) is called and runs to its first await
FetchCall(srv) ==
  /\ fPc = "idle"
  /\ fSrv' = srv
  /\ IssueGet(srv, 0, 0, fNow)
  /\ UNCHANGED <<srvVars, manVars, convVars, raceVars, expVars, fLog, fOut, fNow>>

\* the upstream answers, or the connection fails
FetchReply(u) ==
  /\ fPc = "awaiting"
  /\ Settled(u)
  /\ UNCHANGED <<srvVars, manVars, convVars, raceVars, expVars, fSrv, fNow>>

\* the timeout of the pending axios.get elapses
FetchTimeout ==
  /\ fPc = "awaiting"
  /\ fTimer # NoTimer /\ fNow >= fTimer
  /\ Settled(TimeoutError)
  /\ UNCHANGED <<srvVars, manVars, convVars, raceVars, expVars, fSrv, fNow>>

\* the delay after a caught error is over: i++ and the next pass
FetchRetry ==
  /\ fPc = "sleeping"
  /\ fNow >= fTimer
  /\ IssueGet(fSrv, fI + 1, fCalls, fNow)
  /\ UNCHANGED <<srvVars, manVars, convVars, raceVars, expVars, fSrv, fLog, fOut, fNow>>

\* time passes while the function awaits
FetchTick ==
  /\ fPc \in {"awaiting", "sleeping"}
  /\ fNow < MaxFetchTicks * RetryDelay
  /\ fNow' = fNow + RetryDelay
  /\ UNCHANGED <<srvVars, manVars, convVars, raceVars, expVars, fSrv, fPc, fI, fCalls, fLog, fOut, fTimer>>

\* the caller has the result; the next call starts afresh
FetchEnd ==
  /\ fPc \in {"returned", "thrown"}
  /\ fPc' = "idle" /\ fI' = 0 /\ fCalls' = 0 /\ fLog' = <<>>
  /\ fOut' = NoOutcome /\ fNow' = 0 /\ fTimer' = NoTimer
  /\ UNCHANGED <<srvVars, manVars, convVars, raceVars, expVars, fSrv>>

NextFetch ==
  \/ \E srv \in FetchServers : FetchCall(srv)
  \/ \E u \in UpstreamReplies : FetchReply(u)
  \/ FetchTimeout
  \/ FetchRetry
  \/ FetchTick
  \/ FetchEnd

SpecFetch == Init /\ [][NextFetch]_vars

(***************************************************************************)
(* isUrlExpired called on the text of a URL                                *)
(***************************************************************************)
UrlTokens == {"expire=", "&", "0", "3"}
UrlTexts == UNION {[1..n -> UrlTokens] : n \in 0..MaxUrlLen}
UrlTimes == {k * 300 * 1000 : k \in 0..MaxNowSteps}

\* url.match(/expire=(\d+)/): the digits captured by the first match, <<>>
\* when nothing matches
RECURSIVE ExpireMatch(_)
ExpireMatch(s) ==
  IF Len(s) < 2 THEN <<>>
  ELSE IF Head(s) = "expire=" /\ LeadingDigits(Tail(s)) # <<>>
       THEN LeadingDigits(Tail(s))
       ELSE ExpireMatch(Tail(s))

\* the URL as the model of the servers holds it: its expire field
ParseUrl(text) ==
  LET m == ExpireMatch(text)
  IN Url(IF m = <<>> THEN NoExpire ELSE parseInt(m).v, "text")

\* the running server calls isUrlExpired(url), which returns
ExpiryCall ==
  /\ uOut = <<>>
  /\ \E text \in UrlTexts, t \in UrlTimes :
       /\ uText' = text /\ uNow' = t /\ uSrv' = server
       /\ uOut' = <<isUrlExpired(ParseUrl(text), t, server)>>
  /\ UNCHANGED <<srvVars, manVars, fetchVars, convVars, raceVars>>

\* the caller goes on; the next call
ExpiryReturn ==
  /\ uOut # <<>>
  /\ uText' = <<>> /\ uNow' = 0 /\ uSrv' = "index" /\ uOut' = <<>>
  /\ UNCHANGED <<srvVars, manVars, fetchVars, convVars, raceVars>>

NextExpiry ==
  \/ ExpiryCall
  \/ ExpiryReturn

SpecExpiry == Init /\ [][NextExpiry]_vars

(***************************************************************************)
(* Concurrent calls of the resolver: each call runs to its await in one    *)
(* step and from the settled upstream call to its return in another        *)
(***************************************************************************)
\* the call of caller c: getVideoFormats(id, true) from runFFmpeg of
\* index.js when forced, the server's resolver otherwise
RaceCall(c, id, force) ==
  /\ kCall[c].pc = "idle"
  /\ force => server = "index"
  /\ LET res == IF force THEN getVideoFormats(id, TRUE, cache, now)
                ELSE Resolve(server, id, cache, now)
         busy == \E d \in Callers \ {c} :
                   kCall[d].pc = "awaiting" /\ kCall[d].id = id
         k == [IdleCall EXCEPT !.id = id, !.force = force, !.raced = busy]
     IN kCall' = [kCall EXCEPT ![c] =
          IF res.k = "hit" THEN [k EXCEPT !.pc = "returned", !.ret = res.v]
          ELSE IF res.k = "throw"
               THEN [k EXCEPT !.pc = "thrown", !.error = res.error]
          ELSE [k EXCEPT !.pc = "awaiting", !.waited = TRUE]]
  /\ UNCHANGED <<srvVars, manVars, fetchVars, convVars, expVars, kStored>>

\* the upstream call of caller c settles with u; the resolver stores and
\* returns, or throws
RaceReply(c, u) ==
  /\ kCall[c].pc = "awaiting"
  /\ LET id == kCall[c].id
         res == Fetched(server, u)
     IN /\ cache' = Stored(cache, id, res, now)
        /\ kStored' = IF res.k = "got" THEN [kStored EXCEPT ![id] = res.v]
                      ELSE kStored
        /\ kCall' = [kCall EXCEPT ![c] =
             IF res.k = "got" THEN [@ EXCEPT !.pc = "returned", !.ret = res.v]
             ELSE [@ EXCEPT !.pc = "thrown", !.error = res.error]]
  /\ UNCHANGED <<server, now, req, crashed, lastManifest, manVars, fetchVars, convVars,
                 expVars>>

\* the caller has its value or its error; its next call starts afresh
RaceEnd(c) ==
  /\ kCall[c].pc \in {"returned", "thrown"}
  /\ kCall' = [kCall EXCEPT ![c] = IdleCall]
  /\ UNCHANGED <<srvVars, manVars, fetchVars, convVars, expVars, kStored>>

\* the replies the concurrent calls are explored with: an error, the invalid
\* payloads, and payloads that differ in what is stored for the key
RaceReplies ==
  {NetError, Reply(NoData), Reply([DataA EXCEPT !.title = ""]),
   Reply(DataA), Reply(DataB), Reply(DataC), Reply(DataD)}

NextRace ==
  \/ \E c \in Callers, id \in VideoIds, force \in BOOLEAN : RaceCall(c, id, force)
  \/ \E c \in Callers, u \in RaceReplies : RaceReply(c, u)
  \/ \E c \in Callers : RaceEnd(c)

SpecRace == Init /\ [][NextRace]_vars

(***************************************************************************)
(* Properties                                                              *)
(***************************************************************************)
\* a subprocess was started (or its start was attempted) for the request
Spawned(q) == q.proc # "none"

\* C1: in every segment request, whatever the upstream answered, the direct
\* URL given to the spawned transcoding process is not expired at the moment
\* of the spawn (it has an expire field, and that instant minus the safety
\* margin is still ahead)
C1_UrlFreshAtSpawn ==
  \A r \in Requests :
    Spawned(req[r]) =>
      ~isUrlExpired(req[r].spawn.url, req[r].spawn.at, server)

\* C2: once the caller's connection has closed, no subprocess of the request
\* is left running: it was never spawned, has exited, or has been sent a
\* termination signal
C2_NoSubprocessAfterClose ==
  \A r \in Requests : req[r].closed => req[r].proc # "running"

\* C3 (as stated): for a valid identifier, a resolve made while a cache entry
\* is within its TTL makes no upstream call
C3_HitWithinTtl ==
  \A r \in Requests :
    (req[r].live /\ ValidId(req[r].videoId)) => req[r].calls = 0

\* C3 (amended): for a valid identifier, a resolve made while a cache entry is
\* within its TTL makes no upstream call and hands the cached formats to the
\* handler, provided that, on the servers whose resolver inspects the cached
\* URLs (all but index.js), no cached URL is expired
C3_HitWithinTtlFresh ==
  \A r \in Requests :
    LET q == req[r] IN
    (q.live /\ ValidId(q.videoId) /\ (server = "index" \/ q.fresh)) =>
      /\ q.calls = 0
      /\ q.st # "resolving"
      /\ (server \in MultiQuality /\ q.h # "master" /\ q.refreshes = 0)
           => q.fmts = cache[q.videoId].v.formats

\* C3 witness: a second request, later than the first and within the TTL, was
\* answered from the cache by the server that inspects the cached URLs
C3_Witness ==
  \E r \in Requests :
    /\ server = "multi" /\ now > 0
    /\ req[r].live /\ req[r].fresh /\ req[r].calls = 0
    /\ req[r].st = "done" /\ req[r].resp.status = 200

\* C4: a request whose identifier does not match [A-Za-z0-9_-]{11} is answered
\* with the invalid-identifier error on every endpoint of every server, with
\* no upstream call and no subprocess
C4_InvalidIdRejected ==
  \A r \in Requests :
    LET q == req[r] IN
    (q.st # "idle" /\ q.h # "notfound" /\ ~ValidId(q.videoId)) =>
      /\ q.calls = 0
      /\ ~Spawned(q)
      /\ q.resp.status = 500
      /\ q.resp.error = "Invalid YouTube video ID"

\* C5: a segment request whose segment index is negative or not a number is
\* answered with an error and no transcoding subprocess is spawned for it
C5_BadIndexRejected ==
  \A r \in Requests :
    LET q == req[r] IN
    (q.h \in {"segment", "asegment"} /\ BadSegmentIndex(parseInt(q.segNum))) =>
      /\ ~Spawned(q)
      /\ q.st = "done" => q.resp.kind = "json_error"

\* C6: when the transcoding process exits with a non-zero status, a caller
\* that has received no byte gets an error status with an error body; a
\* caller that has received bytes gets no error body
C6_NonZeroExitReported ==
  \A r \in Requests :
    LET q == req[r] IN
    (q.proc = "exited" /\ q.exitCode = "1" /\ ~q.closed) =>
      IF q.resp.bytes THEN q.resp.status = 200 /\ q.resp.kind = "stream"
      ELSE q.resp.status = 500 /\ q.resp.kind = "json_error"

\* C7: when the transcoding process cannot be started, the request ends with
\* an error response to the caller and the server keeps running
C7_SpawnFailureHandled ==
  \A r \in Requests :
    req[r].proc = "failed" =>
      /\ ~crashed
      /\ req[r].st = "done"
      /\ req[r].resp.status = 500 /\ req[r].resp.kind = "json_error"

\* C8: a subprocess is spawned for a selected format whose URL is expired
\* (past, within the margin, or without an expire field) only in the step in
\* which an upstream call of that request completes: the forced refresh on
\* index.js, the resolver's call on the other servers
C8_RefreshBeforeSpawn ==
  [][\A r \in Requests :
       (~Spawned(req[r]) /\ Spawned(req'[r]) /\ req'[r].stale) =>
         /\ req[r].st = IF server = "index" THEN "refreshing" ELSE "resolving"
         /\ req'[r].calls + req'[r].refreshes >= 1]_vars

\* C8 witness: index.js took an expired URL from the cache, refreshed, and
\* only then spawned
C8_Witness ==
  \E r \in Requests :
    /\ server = "index" /\ req[r].proc = "running" /\ req[r].stale
    /\ req[r].calls = 0 /\ req[r].refreshes = 1

\* C9: in the variant manifest and the video segment path the format is the
\* first video_with_audio format whose label contains the requested quality,
\* else the first video_with_audio format; the request fails with an error
\* response, no manifest and no subprocess, only when there is none
\* (requests for /audio.m3u8 are left aside)
C9_SelectionWithFallback ==
  \A r \in Requests :
    LET q == req[r]
        quality == IF server \in MultiQuality THEN q.quality ELSE <<"720p">>
        want == SelectWithFallback(q.fmts, quality)
    IN (q.h \in {"variant", "segment"} /\ q.fmts # <<>>
          /\ q.path.file # File("audio", ".m3u8")) =>
         IF want = NoFormat
         THEN q.st = "done" /\ q.resp.kind = "json_error" /\ ~Spawned(q)
         ELSE IF server \in MultiQuality
              THEN q.format.quality = want.quality /\ q.format.type = want.type
              ELSE Spawned(q) => q.spawn.url = want.url

\* a declared #EXTINF value (thousandths of a second) in duration units
Declared(e) == e * (DurScale \div 1000)
Abs(x) == IF x < 0 THEN -x ELSE x

\* C10 (as stated): for a positive duration d the finished playlist lists
\* ceil(d/10) segments, numbered 0..count-1 in order; all but the last declare
\* 10 seconds and the last declares d-(count-1)*10, more than 0 and at most 10
C10_SegmentsExact ==
  (mDone /\ mH # "none" /\ mDuration > 0) =>
    LET n == Len(mLines)
        s == SegmentDuration * DurScale
    IN /\ n * s >= mDuration /\ (n - 1) * s < mDuration
       /\ \A k \in 1..n : parseInt(Tail(mLines[k].uri.file)) = Num(k - 1)
       /\ \A k \in 1..(n - 1) : Declared(mLines[k].extinf) = s
       /\ Declared(mLines[n].extinf) = mDuration - (n - 1) * s
       /\ Declared(mLines[n].extinf) > 0
       /\ Declared(mLines[n].extinf) <= s

\* C10 (amended): as above, but the last segment declares d-(count-1)*10
\* rounded to three decimals: equal to it and positive when d is a whole
\* number of milliseconds, otherwise within half a millisecond of it, at
\* least 0 and at most 10
C10_SegmentsRounded ==
  (mDone /\ mH # "none" /\ mDuration > 0) =>
    LET n == Len(mLines)
        s == SegmentDuration * DurScale
        rest == mDuration - (n - 1) * s
        last == Declared(mLines[n].extinf)
    IN /\ n * s >= mDuration /\ (n - 1) * s < mDuration
       /\ \A k \in 1..n : parseInt(Tail(mLines[k].uri.file)) = Num(k - 1)
       /\ \A k \in 1..(n - 1) : Declared(mLines[k].extinf) = s
       /\ 2 * Abs(last - rest) <= Declared(1)
       /\ rest % Declared(1) = 0 => (last = rest /\ last > 0)
       /\ last >= 0 /\ last <= s

\* C10 witness: the playlist of a 125-second video is complete, with 13
\* segments, the last declared as 5.000
C10_Witness ==
  /\ mDone /\ mH = "variant" /\ mDuration = 125 * DurScale
  /\ Len(mLines) = 13 /\ mLines[13].extinf = 5000

\* C11 (as stated): a duration of zero or less gives a playlist without
\* segment entries, and no playlist has an entry whose declared duration is
\* zero or negative
C11_NoEmptySegments ==
  (mDone /\ mH # "none") =>
    /\ mDuration <= 0 => mLines = <<>>
    /\ \A k \in 1..Len(mLines) : mLines[k].extinf > 0

\* C11 (amended): a duration of zero or less gives a playlist without segment
\* entries; no entry declares a negative duration, and an entry declares
\* 0.000 only as the three-decimal rounding of a positive remainder of at
\* most half a millisecond
C11_NoEmptySegmentsRounded ==
  (mDone /\ mH # "none") =>
    /\ mDuration <= 0 => mLines = <<>>
    /\ \A k \in 1..Len(mLines) :
         LET rest == mDuration - (k - 1) * SegmentDuration * DurScale IN
         /\ mLines[k].extinf >= 0
         /\ mLines[k].extinf = 0 => (rest > 0 /\ 2 * rest <= Declared(1))

\* C11 witness: the audio playlist of a negative duration is complete and
\* has no entries
C11_Witness ==
  mDone /\ mH = "audio" /\ mDuration < 0 /\ mI = 0 /\ mLines = <<>>

\* the segment number written in the request path, after "segment"/"asegment"
PathSegmentNumber(q) == parseInt(Tail(q.path.file))

\* C12: for a request for segment N, N a non-negative integer, the
\* transcoding process is started with seek offset N*10 seconds and clip
\* length 10 seconds
C12_SeekWindow ==
  \A r \in Requests :
    LET q == req[r] IN
    (q.h \in {"segment", "asegment"} /\ Spawned(q)
       /\ ~BadSegmentIndex(PathSegmentNumber(q))) =>
      /\ q.spawn.ss = Times(PathSegmentNumber(q), SegmentDuration)
      /\ q.spawn.t = Num(SegmentDuration)

\* the master manifest sent by a multi-quality server
IsMaster(q) ==
  server \in MultiQuality /\ q.h = "master" /\ q.resp.kind = "m3u8"
StreamEntries(body) == {k \in 1..Len(body) : body[k].kind = "stream-inf"}
MediaEntries(body) == {k \in 1..Len(body) : body[k].kind = "media"}
\* the formats that combine video and audio
Combined(fmts) == {i \in 1..Len(fmts) : fmts[i].type = "video_with_audio"}
Ladder == {VideoQualities[i] : i \in 1..Len(VideoQualities)}

C14_AudioManifestServed ==
  \A r \in Requests :
    LET q == req[r] IN
    (server \in MultiQuality /\ q.path.file = File("audio", ".m3u8")
       /\ q.st = "done" /\ SelectAudio(q.fmts) # NoFormat) =>
      /\ q.resp.status = 200 /\ q.resp.kind = "m3u8"
      /\ \A k \in 1..Len(q.resp.body) :
           q.resp.body[k].uri = AudioUri(q.videoId, k - 1)

\* the error messages of validation, resolution and format selection
EarlyErrors ==
  {"Invalid YouTube video ID", "Invalid segment number",
   "API request failed: timeout",
   "API request failed: Invalid response from API",
   "Format not available", "Audio format not available",
   "No suitable format found"}

\* C15: a segment request spawns at most one transcoding subprocess over its
\* lifetime, also when the URL is refreshed; one that is transcoding has
\* spawned exactly one; one that failed in validation, resolution or format
\* selection has spawned none
C15_OneSubprocessPerRequest ==
  \A r \in Requests :
    LET q == req[r] IN
    /\ q.spawns <= 1
    /\ q.st = "transcoding" => q.spawns = 1
    /\ q.st \in {"resolving", "refreshing"} => q.spawns = 0
    /\ (q.st = "done" /\ q.resp.error \in EarlyErrors) => q.spawns = 0
    /\ q.h \notin {"segment", "asegment"} => q.spawns = 0

\* C15 witness: index.js refreshed an expired URL and is transcoding with the
\* one subprocess it spawned
C15_Witness ==
  \E r \in Requests :
    /\ server = "index" /\ req[r].st = "transcoding"
    /\ req[r].refreshes = 1 /\ req[r].spawns = 1

\* C16: a request with a malformed video identifier or a malformed segment
\* number is answered with a 400-class status on every endpoint
C16_BadInputIs400Class ==
  \A r \in Requests :
    LET q == req[r] IN
    (q.st = "done" /\ q.h # "notfound"
       /\ (~ValidId(q.videoId)
             \/ (q.h \in {"segment", "asegment"}
                   /\ BadSegmentIndex(PathSegmentNumber(q))))) =>
      q.resp.status \in 400..499

\* C17: every error response carries a JSON body {error: <message>}; none
\* has an empty body or another shape
C17_ErrorsAreJson ==
  \A r \in Requests :
    req[r].resp.status >= 400 =>
      req[r].resp.kind = "json_error" /\ req[r].resp.error # ""

\* C18: no request hangs forever even if the upstream never answers, because
\* each upstream call is time-bounded: whenever fetchYouTubeData awaits
\* axios.get, a timeout is armed that ends the wait at a known instant
C18_UpstreamCallTimeBounded ==
  fPc = "awaiting" =>
    fTimer # NoTimer /\ fTimer <= fNow + AxiosTimeout(PreConversion)

\* C19: a resolution attempt that fails transiently (the connection fails or
\* times out) is retried; a resolve makes at most 3 upstream calls, returns
\* the result of the first call that succeeds without calling again, and
\* throws only when every call has failed, with the message of the last one
C19_TransientFailureRetried ==
  /\ fCalls <= 3
  /\ fPc = "returned" => fOut.ok /\ Len(fLog) = fCalls - 1
  /\ fPc = "thrown" =>
       /\ Len(fLog) = fCalls
       /\ fOut = Fail("API request failed: " \o fLog[Len(fLog)])
       /\ fLog[1] \in {NetError.msg, TimeoutError.msg} => fCalls > 1

\* C20: two requests for the same manifest (same videoId, same quality, same
\* resolved media) receive identical segment lists, whatever the order of
\* the requests, the time of each and whether it was served from the cache
C20_SameManifestSameSegments ==
  [][\A r \in Requests :
       (req[r].st # "done" /\ IsPlaylist(server, req'[r])
          /\ SameManifest(lastManifest', lastManifest)) =>
         lastManifest'.body = lastManifest.body]_vars

\* C20 witness: a playlist served from the cache, later than and for the
\* same manifest as the playlist sent before it
C20_Witness ==
  \E r \in Requests :
    /\ IsPlaylist(server, req[r])
    /\ req[r].live /\ req[r].calls = 0 /\ now > 0
    /\ lastManifest.again /\ lastManifest.body = req[r].resp.body
    /\ Len(lastManifest.body) = 3

\* the places of the text where an expire=<digits> parameter starts
ExpireParams(text) ==
  {i \in 1..(Len(text) - 1) : text[i] = "expire=" /\ text[i + 1] \in DigitSet}
\* the seconds given by the first expire=<digits> parameter
ExpireSeconds(text) ==
  LET i == CHOOSE k \in ExpireParams(text) :
             \A l \in ExpireParams(text) : k <= l
      j == CHOOSE k \in (i + 1)..Len(text) :
             /\ \A l \in (i + 1)..k : text[l] \in DigitSet
             /\ k = Len(text) \/ text[k + 1] \notin DigitSet
  IN DigitsValue(SubSeq(text, i + 1, j), 0)

\* C21: isUrlExpired(url) is true exactly when the URL has no expire=<digits>
\* parameter or now >= expire * 1000 - margin (300000 ms in index.js, 1800000
\* ms in the single-quality server of part_000), false otherwise; a URL whose
\* expire instant is in the past is always reported expired
C21_ExpiredExactly ==
  uOut # <<>> =>
    LET margin == IF uSrv = "legacy" THEN 1800000 ELSE 300000
        has == ExpireParams(uText) # {}
    IN /\ uOut[1] = (~has \/ uNow >= ExpireSeconds(uText) * 1000 - margin)
       /\ (has /\ uNow >= ExpireSeconds(uText) * 1000) => uOut[1]

\* C21 witness: a URL of the part_000 server inside the 30-minute margin of
\* its expire field, found after an expire= without digits, reported expired
C21_Witness ==
  /\ uOut = <<TRUE>> /\ uSrv = "legacy"
  /\ Cardinality(ExpireParams(uText)) = 1 /\ uText[1] = "expire="
  /\ uText[2] \notin DigitSet
  /\ uNow < ExpireSeconds(uText) * 1000
  /\ uNow > ExpireSeconds(uText) * 1000 - 1800000

\* the state of a segment request in the terms of the specification
IsSegment(q) == q.h \in {"segment", "asegment"}
Phase(q) ==
  IF q.st = "idle" THEN "Idle"
  ELSE IF q.closed THEN "Aborted"
  ELSE IF q.st \in {"done", "dead"}
       THEN IF q.resp.status = 200 THEN "Completed" ELSE "Failed"
  ELSE IF q.st = "resolving" THEN "Resolving"
  ELSE IF q.st = "refreshing" THEN "Refreshing"
  ELSE "Transcoding"
Final == {"Completed", "Aborted", "Failed"}
Rank(ph) ==
  IF ph = "Idle" THEN 0 ELSE IF ph = "Resolving" THEN 1
  ELSE IF ph = "Refreshing" THEN 2 ELSE IF ph = "Transcoding" THEN 3 ELSE 4

\* C22: a segment request moves only along Idle, Resolving, Refreshing (at
\* most once), Transcoding, and then one of Completed, Aborted, Failed; the
\* subprocess is started only after a successful resolution, a request is
\* Completed only on exit status 0, and the three final states are terminal:
\* no transition, no subprocess and no response after them
C22_SegmentStateMachine ==
  [][\A r \in Requests :
       LET q == req[r]
           n == req'[r]
       IN (IsSegment(n) /\ n.st # "idle") =>
            /\ Phase(n) # Phase(q) => Rank(Phase(n)) > Rank(Phase(q))
            /\ n.refreshes <= 1
            /\ n.spawns > q.spawns =>
                 Phase(q) \in {"Idle", "Resolving", "Refreshing"}
                   /\ n.format # NoFormat
            /\ Phase(n) = "Completed" => n.exitCode = "0"
            /\ Phase(q) \in Final =>
                 /\ Phase(n) = Phase(q)
                 /\ n.spawns = q.spawns
                 /\ n.resp.status = q.resp.status]_vars

\* what a resolve of the running server yields from one upstream response
CompleteResults ==
  {Fetched(server, u).v : u \in {x \in UpstreamReplies : Fetched(server, x).k = "got"}}

\* C23: under any interleaving of concurrent resolves and forced refreshes of
\* one key, every cache entry and every value returned to a caller is the
\* complete result of exactly one upstream response, never a mixture of two,
\* and the entry is the value stored last
C23_AtomicReplacement ==
  /\ \A id \in VideoIds :
       cache[id].has =>
         cache[id].v \in CompleteResults /\ cache[id].v = kStored[id]
  /\ \A c \in Callers :
       kCall[c].pc = "returned" => kCall[c].ret \in CompleteResults

\* C23 witness: a resolve and a forced refresh of the same key overlapped,
\* received different responses, and the entry is the one stored last
C23_Witness ==
  /\ kCall["a"].pc = "returned" /\ kCall["b"].pc = "returned"
  /\ kCall["a"].id = kCall["b"].id
  /\ kCall["b"].raced /\ kCall["b"].force /\ kCall["a"].waited
  /\ kCall["a"].ret # kCall["b"].ret
  /\ cache[kCall["a"].id].v = kCall["a"].ret

\* an entry the resolver of the running server answers from: within its TTL
\* and, where the resolver looks at them, with URLs that are not expired
Usable(e) ==
  Live(e, now) /\ (server = "index" \/ CacheFresh(server, e, now))

\* C24: a resolve or forced refresh of one key leaves the entries of all
\* other keys unchanged, and a reader of another key that has a live entry
\* gets its cache hit at once, without waiting for the refresh in flight
C24_OtherKeysUntouched ==
  [][\A c \in Callers :
       kCall'[c] # kCall[c] =>
         /\ \A id \in VideoIds \ {kCall[c].id, kCall'[c].id} :
              cache'[id] = cache[id]
         /\ (/\ kCall[c].pc = "idle" /\ kCall'[c].pc # "idle"
             /\ ~kCall'[c].force
             /\ Usable(cache[kCall'[c].id])
             /\ \E d \in Callers \ {c} :
                  kCall[d].pc = "awaiting" /\ kCall[d].id # kCall'[c].id) =>
              /\ kCall'[c].pc = "returned" /\ ~kCall'[c].waited
              /\ kCall'[c].ret = cache[kCall'[c].id].v]_vars

\* C24 witness: while a forced refresh of one key awaits the upstream, a
\* reader of another key has been answered from the cache, and the entry of
\* that key is still the one stored before
C24_Witness ==
  /\ kCall["a"].pc = "awaiting" /\ kCall["a"].force /\ kCall["a"].id = GoodId
  /\ cache[GoodId].has
  /\ kCall["b"].pc = "returned" /\ ~kCall["b"].waited /\ kCall["b"].id = OtherId
  /\ cache[OtherId].has /\ kCall["b"].ret = cache[OtherId].v
  /\ cache[OtherId].v # cache[GoodId].v

\* C30: a resolve that throws (invalid identifier, upstream error, invalid
\* payload, no suitable format) leaves the cache as it was, a forced refresh
\* of an existing entry included
C30_FailedResolveKeepsCache ==
  [][\A c \in Callers :
       (kCall[c].pc # "thrown" /\ kCall'[c].pc = "thrown") =>
         cache' = cache]_vars

\* C30 witness: a forced refresh of a cached key failed after its upstream
\* call, and the entry stored before is still there
C30_Witness ==
  \E c \in Callers :
    /\ kCall[c].pc = "thrown" /\ kCall[c].force
    /\ kCall[c].error = "API request failed: Invalid response from API"
    /\ cache[kCall[c].id].has /\ cache[kCall[c].id].v = kStored[kCall[c].id]

\* the request as it would be had the subprocess written nothing to stderr
Quiet(q) == [q EXCEPT !.stderrOutput = ""]

\* C25: what the subprocess wrote to its standard error never reaches the
\* caller. For every request whose caller is still connected, the response
\* carries no stderr text, and the response produced when the subprocess exits
\* (with any exit code) is the same as the one produced from the state in
\* which stderr stayed empty, so two runs that differ only in the stderr
\* output send the same status, headers and body.
C25_StderrNeverReachesCaller ==
  \A r \in Requests :
    LET q == req[r] IN
    ~q.closed =>
      /\ q.stderrOutput # "" => q.resp.details # q.stderrOutput
      /\ q.proc = "running" =>
           \A code \in {"0", "1"} :
             Exited(server, q, code).resp = Exited(server, Quiet(q), code).resp

\* the subprocess wrote to stderr and failed, the caller got the piped 200
C25_Witness ==
  \E r \in Requests :
    /\ server = "single" /\ req[r].st = "done" /\ ~req[r].closed
    /\ req[r].exitCode = "1" /\ req[r].stderrOutput = StderrChunk
    /\ req[r].resp.status = 200 /\ req[r].resp.details = ""

\* C26: items without a usable direct URL are discarded before caching and
\* selection. In every reachable state every format of a cached format list
\* and the URL of every cached result is a direct URL, and no subprocess was
\* started for a format without a URL.
C26_CachedUrlsUsable ==
  /\ \A id \in VideoIds :
       cache[id].has =>
         IF server \in MultiQuality
         THEN \A i \in 1..Len(cache[id].v.formats) : HasUrl(cache[id].v.formats[i])
         ELSE cache[id].v.url.present
  /\ \A r \in Requests : Spawned(req[r]) => req[r].spawn.url.present

\* C27: a payload that lacks the title, the item list or the duration is
\* never returned by the upstream fetch: whenever the call has returned, the
\* returned media has a title and a duration.
C27_IncompletePayloadRejected ==
  fPc = "returned" => fOut.v.title # "" /\ fOut.v.duration # NoDuration

\* C28: a segment request sends at most one response. No handler starts a
\* second response on a connection, and once bytes of the subprocess have
\* been written to the caller the response stays the 200 stream: no error
\* status and no JSON error body is written by the exit, spawn-error or
\* catch handlers.
C28_AtMostOneResponse ==
  \A r \in Requests :
    /\ req[r].resp.writes <= 1
    /\ req[r].resp.bytes =>
         /\ req[r].resp.status = 200 /\ req[r].resp.kind = "stream"
         /\ req[r].resp.error = "" /\ req[r].resp.details = ""

\* bytes were sent and the subprocess then failed, in a server whose exit
\* handler writes an error response when the headers were not sent
C28_Witness ==
  \E r \in Requests :
    /\ server \in SingleQuality /\ req[r].h = "segment" /\ req[r].st = "done"
    /\ req[r].resp.bytes /\ req[r].exitCode = "1" /\ ~req[r].closed
    /\ req[r].resp.writes = 1

\* the media time a playlist declares: the sum of its #EXTINF values
RECURSIVE DeclaredTotal(_)
DeclaredTotal(lines) ==
  IF lines = <<>> THEN 0
  ELSE Declared(Head(lines).extinf) + DeclaredTotal(Tail(lines))

\* C29 (as stated): for every positive total duration the declared durations
\* of a playlist sum exactly to the total duration, each declared duration is
\* in (0, 10], and the playlist declares no more media time than the video has
C29_DeclaredSumExact ==
  (mDone /\ mH # "none" /\ mDuration > 0) =>
    /\ DeclaredTotal(mLines) = mDuration
    /\ \A k \in 1..Len(mLines) :
         /\ mLines[k].extinf > 0
         /\ Declared(mLines[k].extinf) <= SegmentDuration * DurScale
    /\ DeclaredTotal(mLines) <= mDuration

\* C29 (amended): for every positive total duration the declared durations
\* sum to the total duration rounded to three decimals, which is the total
\* itself when it is a whole number of milliseconds and otherwise differs from
\* it by at most half a millisecond, in either direction; each declared
\* duration is in [0, 10]
C29_DeclaredSumRounded ==
  (mDone /\ mH # "none" /\ mDuration > 0) =>
    LET total == DeclaredTotal(mLines) IN
    /\ total = Declared(toFixed3(mDuration))
    /\ mDuration % Declared(1) = 0 => total = mDuration
    /\ 2 * (total - mDuration) <= Declared(1)
    /\ 2 * (mDuration - total) <= Declared(1)
    /\ \A k \in 1..Len(mLines) :
         /\ mLines[k].extinf >= 0
         /\ Declared(mLines[k].extinf) <= SegmentDuration * DurScale

\* C29 witness: a duration of 20.0006 s is declared as 10.000 + 10.000 + 0.001,
\* more media time than the video has
C29_Witness ==
  /\ mDone /\ mH = "variant" /\ mDuration = 20 * DurScale + 6
  /\ Len(mLines) = 3 /\ mLines[3].extinf = 1
  /\ DeclaredTotal(mLines) > mDuration

\* a playlist URI requested while the resolver returns data: a manifest is sent
ServedManifest(srv, uri, data) ==
  LET q == Routed(srv, uri)
  IN /\ q.h \in {"master", "variant", "audio"}
     /\ ManifestHandler(q, data).resp.kind = "m3u8"

\* a segment URI requested while the resolver returns data: the segment
\* endpoint finds its format
PassesSelection(srv, uri, data) ==
  LET q == Routed(srv, uri)
  IN /\ q.h \in {"segment", "asegment"}
     /\ NoFormat # (IF q.h = "segment" THEN SelectVideo(data.formats, q.quality)
                    ELSE SelectAudio(data.formats))

\* C31: in the multi-quality servers every playlist URI of a master manifest
\* (the variant entries and the audio rendition) is answered with a manifest
\* when requested against the same cached formats, and every segment URI of a
\* variant or audio manifest passes the format selection of its segment
\* endpoint.
C31_EmittedUrisServed ==
  \A r \in Requests :
    LET q == req[r] IN
    (server \in MultiQuality /\ q.st = "done" /\ q.resp.kind = "m3u8"
       /\ cache[q.videoId].has /\ cache[q.videoId].v.formats = q.fmts) =>
      \A k \in 1..Len(q.resp.body) :
        IF q.h = "master"
        THEN ServedManifest(server, q.resp.body[k].uri, cache[q.videoId].v)
        ELSE PassesSelection(server, q.resp.body[k].uri, cache[q.videoId].v)

(***************************************************************************)
(* The pre-conversion server (src/unnamed/part_000, lines 1-254): POST     *)
(* /api/process one await at a time, for concurrent requests that name the *)
(* same video. The cache's TTL (24 hours) is not modelled: an entry stays. *)
(***************************************************************************)
\* req.body: youtubeUrl given or not, and what /[?&]v=([^&]+)/ captures from
\* it (<<>>: no match)
ProcessBodies ==
  {[youtubeUrl |-> FALSE, v |-> <<>>], [youtubeUrl |-> TRUE, v |-> <<>>],
   [youtubeUrl |-> TRUE, v |-> GoodId]}

\* what fetchYouTubeData settles with: an error, data with a video_with_audio
\* format, data without one
ConvertReplies == {NetError, Reply(DataA), Reply(DataC)}

\* res.status(status).json({ error }) / res.json({ videoId, streamUrl, ... })
Answered(c, status, answer) ==
  [c EXCEPT !.pc = "answered", !.status = status, !.answer = answer]

\* cache.set(videoId, { title, thumbnail, duration })
Info(data) == [has |-> TRUE, title |-> data.title]

\* the handler up to its first await
ProcessCall(p, body) ==
  /\ pCall[p].pc = "idle"
  /\ pCall' = [pCall EXCEPT ![p] =
       IF ~body.youtubeUrl THEN Answered(@, 400, "YouTube URL is required")
       ELSE IF body.v = <<>> THEN Answered(@, 400, "Invalid YouTube URL")
       ELSE IF pCache.has THEN Answered(@, 200, "cached")
       ELSE [@ EXCEPT !.pc = "fetching"]]
  /\ UNCHANGED <<srvVars, manVars, fetchVars, raceVars, expVars, pCache, hlsDir>>

\* await fetchYouTubeData(youtubeUrl) settles with u; on success the format
\* is selected and convertToHLS runs to its await fs.pathExists(outputPath)
ProcessFetched(p, u) ==
  /\ pCall[p].pc = "fetching"
  /\ LET r == fetchYouTubeData(u)
         format == SelectWithFallback(r.v.formats, <<"720p">>)
     IN pCall' = [pCall EXCEPT ![p] =
          IF ~r.ok THEN Answered(@, 500, "Internal server error")
          ELSE IF format = NoFormat
               THEN Answered(@, 404, "No suitable video format found")
          ELSE [@ EXCEPT !.pc = "checking", !.data = r.v, !.url = format.url]]
  /\ UNCHANGED <<srvVars, manVars, fetchVars, raceVars, expVars, pCache, hlsDir>>

\* a convertToHLS that has returned: cache.set and res.json of the handler
Converted(p) ==
  /\ pCache' = Info(pCall[p].data)
  /\ pCall' = [pCall EXCEPT ![p] = Answered(@, 200, "fresh")]

\* fs.pathExists(outputPath) resolves: 'already converted' returns at once,
\* else the function goes on to await fs.ensureDir(videoDir)
PathExists(p) ==
  /\ pCall[p].pc = "checking"
  /\ IF hlsDir.master
     THEN Converted(p)
     ELSE /\ pCall' = [pCall EXCEPT ![p].pc = "ensuring"]
          /\ pCache' = pCache
  /\ UNCHANGED <<srvVars, manVars, fetchVars, raceVars, expVars, hlsDir>>

\* fs.ensureDir(videoDir) resolves; ffmpeg(videoUrl)...output(outputPath).run()
EnsureDir(p) ==
  /\ pCall[p].pc = "ensuring"
  /\ pCall' = [pCall EXCEPT ![p].pc = "converting"]
  /\ hlsDir' = [hlsDir EXCEPT !.exists = TRUE, !.writers = @ \cup {p}]
  /\ UNCHANGED <<srvVars, manVars, fetchVars, raceVars, expVars, pCache>>

\* the running ffmpeg writes the playlist file while segments are still
\* being produced (the hls muxer rewrites it after each segment)
ConvertProgress(p) ==
  /\ pCall[p].pc = "converting"
  /\ hlsDir.exists /\ ~hlsDir.master
  /\ hlsDir' = [hlsDir EXCEPT !.master = TRUE]
  /\ UNCHANGED <<srvVars, manVars, fetchVars, raceVars, expVars, pCache, pCall>>

\* .on('end'): resolve(outputPath); the handler caches and answers
ConvertEnd(p) ==
  /\ pCall[p].pc = "converting"
  /\ hlsDir.exists
  /\ hlsDir' = [hlsDir EXCEPT !.master = TRUE, !.writers = @ \ {p}]
  /\ Converted(p)
  /\ UNCHANGED <<srvVars, manVars, fetchVars, raceVars, expVars>>

\* .on('error'): fs.remove(videoDir); reject; next(error) answers 500
ConvertError(p) ==
  /\ pCall[p].pc = "converting"
  /\ hlsDir' = [exists |-> FALSE, master |-> FALSE,
                writers |-> hlsDir.writers \ {p}]
  /\ pCall' = [pCall EXCEPT ![p] = Answered(@, 500, "Internal server error")]
  /\ UNCHANGED <<srvVars, manVars, fetchVars, raceVars, expVars, pCache>>

\* the client has its answer; the connection is used again
ProcessEnd(p) ==
  /\ pCall[p].pc = "answered"
  /\ pCall' = [pCall EXCEPT ![p] = IdleProcess]
  /\ UNCHANGED <<srvVars, manVars, fetchVars, raceVars, expVars, pCache, hlsDir>>

NextConvert ==
  \/ \E p \in Processes, body \in ProcessBodies : ProcessCall(p, body)
  \/ \E p \in Processes, u \in ConvertReplies : ProcessFetched(p, u)
  \/ \E p \in Processes : PathExists(p)
  \/ \E p \in Processes : EnsureDir(p)
  \/ \E p \in Processes : ConvertProgress(p)
  \/ \E p \in Processes : ConvertEnd(p)
  \/ \E p \in Processes : ConvertError(p)
  \/ \E p \in Processes : ProcessEnd(p)

SpecConvert == Init /\ [][NextConvert]_vars

\* GET /stream/:videoId/master.m3u8 of the pre-conversion server: the status
\* it answers with
ServeMaster(dir) == IF dir.master THEN 200 ELSE 404

\* C32: under any interleaving of concurrent POST /api/process requests for
\* the same video, at most one conversion writes into the video's directory
\* at a time; whenever a request has answered with a streamUrl (fresh or
\* cached) the master manifest of the video is served; and a cache entry for
\* the video implies that its master manifest file exists.
C32_OneConversionOutputKept ==
  /\ Cardinality(hlsDir.writers) <= 1
  /\ (\E p \in Processes :
        pCall[p].pc = "answered" /\ pCall[p].answer \in {"fresh", "cached"})
       => ServeMaster(hlsDir) = 200
  /\ pCache.has => hlsDir.master

====
